---- MODULE Spec2Model ----
(***************************************************************************)
(* Model of the free-funding transaction command (bot/transact.py) and of  *)
(* the in-memory proposal registry (bot/utils/proposal_utils.py).          *)
(*                                                                         *)
(* Every `await` of the handlers is a suspension point of the single event *)
(* loop: an action completes the pending await of one command invocation   *)
(* (its effect and its outcome, success or a raised exception) and then    *)
(* runs the synchronous code that follows, up to the next await.           *)
(***************************************************************************)
EXTENDS Integers, Sequences, FiniteSets, TLC

(* ------------------------------ bounds -------------------------------- *)
\* FREE_FUNDING_LIMIT_PERSON_PER_SEASON is set in bot/config/const.py; the
\* model takes a small value so that insufficient funds are reachable.
Limit == 2
\* Number of commands dispatched to free_funding_transact_command in a run.
MaxInv == 2
\* Number of send_transaction calls in a run of two interleaved handler tasks.
MaxCalls == 2

\* Handler tasks the event loop runs concurrently.
Procs == {1, 2}
Authors == {"a1", "a2"}

(* --------------------------- command text ----------------------------- *)
\* A token is a tuple of characters; a command's arguments are a tuple of
\* tokens (message_content is the prefix, the command word and the tokens
\* separated by whitespace).
Digits == {"0", "1", "2", "3"}

M1 == <<"<", "@", "1", ">">>
M2 == <<"<", "@", "2", ">">>
\* a nickname mention: resolved by the platform, not matched by <@\d+>
MNick == <<"<", "@", "!", "1", ">">>
Word == <<"t", "h", "x">>

Commands ==
    { <<>>,
      <<M1>>,
      <<M1, <<"1">>>>,
      <<M1, <<"1">>, Word>>,
      <<M1, <<"3">>, Word>>,
      <<M1, M2, <<"1">>, Word>>,
      <<M1, <<"1", ".", "2", ".", "3">>, Word>>,
      <<M1, Word, <<"1">>>>,
      <<MNick, <<"1">>, Word>>,
      <<Word, <<"1">>, Word>> }

\* <@\d+>
IsMention(t) ==
    /\ Len(t) >= 4
    /\ t[1] = "<" /\ t[2] = "@" /\ t[Len(t)] = ">"
    /\ \A i \in 3..(Len(t) - 1) : t[i] \in Digits

\* original_message.mentions: the mentions the chat platform resolved
IsResolvedMention(t) ==
    /\ Len(t) >= 4
    /\ t[1] = "<" /\ t[2] = "@" /\ t[Len(t)] = ">"
    /\ \A i \in 3..(Len(t) - 1) : t[i] \in Digits \cup {"!"}

HasMentions(args) == \E i \in 1..Len(args) : IsResolvedMention(args[i])

\* [\d\.]+
IsAmountLike(t) == Len(t) >= 1 /\ \A i \in 1..Len(t) : t[i] \in Digits \cup {"."}

\* number of leading tokens matched by (?:<@\d+>\s+)+
RECURSIVE LeadingMentions(_)
LeadingMentions(args) ==
    IF args # <<>> /\ IsMention(Head(args))
    THEN 1 + LeadingMentions(Tail(args))
    ELSE 0

\* re.search(^prefix\w+\s+((?:<@\d+>\s+)+)([\d\.]+)\s+([\w\W]+)$, message_content)
RegexMatch(args) ==
    LET k == LeadingMentions(args) IN
    /\ k >= 1
    /\ Len(args) >= k + 2
    /\ IsAmountLike(args[k + 1])

\* match.group(1).split()
Mentions(args) == SubSeq(args, 1, LeadingMentions(args))
\* match.group(2)
AmountToken(args) == args[LeadingMentions(args) + 1]
\* match.group(3)
Description(args) == SubSeq(args, LeadingMentions(args) + 2, Len(args))

DigitValue(c) == CASE c = "0" -> 0 [] c = "1" -> 1 [] c = "2" -> 2 [] OTHER -> 3

Dots(t) == Cardinality({i \in 1..Len(t) : t[i] = "."})

\* float(s) raises ValueError unless s is digits with at most one dot
FloatOk(t) == Dots(t) <= 1 /\ \E i \in 1..Len(t) : t[i] \in Digits

RECURSIVE DecimalValue(_)
DecimalValue(t) ==
    IF t = <<>> THEN 0
    ELSE 10 * DecimalValue(SubSeq(t, 1, Len(t) - 1)) + DigitValue(t[Len(t)])

\* float(s) of a token without a fractional part
Float(t) ==
    LET d == {i \in 1..Len(t) : t[i] = "."} IN
    IF d = {} THEN DecimalValue(t)
    ELSE DecimalValue(SubSeq(t, 1, (CHOOSE i \in d : TRUE) - 1))

\* sep.join(items)
RECURSIVE Join(_, _)
Join(sep, items) ==
    IF items = <<>> THEN <<>>
    ELSE IF Len(items) = 1 THEN items[1]
    ELSE items[1] \o sep \o Join(sep, Tail(items))

\* FREE_FUNDING_MENTIONS_COLUMN_SEPARATOR
Separator == <<",">>


(* ------------------------------- state -------------------------------- *)
VARIABLES
    ctx,        \* per handler task: its position and the locals of the invocation
    balances,   \* FreeFundingBalance objects; inDb: inserted in the table
    history,    \* the free_transactions_history table, append-only
    flagFile,   \* os.path.exists(STOP_ACCEPTING_FREE_FUNDING_TRANSACTIONS_FLAG_FILE_NAME)
    recovery,   \* db.is_recovery()
    started,    \* number of invocations dispatched so far
    due         \* per balance object: total the accepted invocations owe (bookkeeping)

txvars == <<ctx, balances, history, flagFile, recovery, started, due>>

VARIABLES
    proposals,    \* the process-wide dict voting_message_id -> proposal
    dbProposals,  \* the proposals in the durable store
    pending,      \* the registry coroutine suspended at an await, if any
    ret,          \* the outcome of the last registry operation that returned
    current,      \* per id: the proposal last inserted and not removed (bookkeeping)
    added,        \* every proposal inserted and not removed since (bookkeeping)
    ops           \* number of registry operations started

VARIABLES
    voters,     \* per registered id: the voters collection of that proposal
    dbVoters,   \* the rows of the voters table
    vpending,   \* the add_voter / remove_voter coroutine suspended at an await, if any
    vret,       \* the outcome of the last add_voter / remove_voter that ended
    found,      \* the last find_matching_voter call and what it returned
    vops        \* number of voter operations started

votvars == <<voters, dbVoters, vpending, vret, found, vops>>

regvars == <<proposals, dbProposals, pending, ret, current, added, ops, votvars>>

vars == <<txvars, regvars>>

NoCommand == <<<<"-">>>>

\* the locals of a handler task before its first command
Idle ==
    [pc |-> "idle", author |-> "a1", args |-> NoCommand, balance |-> 0,
     shown |-> 0, store0 |-> [rows |-> <<>>, history |-> <<>>], env |-> "unread",
     recSeen |-> FALSE, accepted |-> FALSE, rejected |-> FALSE,
     notifyFailed |-> FALSE, notified |-> FALSE, reacts |-> <<>>, replies |-> <<>>,
     critical |-> <<>>, appended |-> <<>>, caught |-> FALSE]

\* the persistent store: the rows of the balance table and the history table
Rows(bals) ==
    LET InDb(r) == r.inDb
        rs == SelectSeq(bals, InDb) IN
    [i \in 1..Len(rs) |-> [author |-> rs[i].author, balance |-> rs[i].balance]]

Store(bals, hist) == [rows |-> Rows(bals), history |-> hist]

\* bug variant: the lazily created record starts empty
EmptyBalance(a) == [author |-> a, balance |-> 0, inDb |-> FALSE]

\* FreeFundingBalance(author=author_mention, balance=FREE_FUNDING_LIMIT_PERSON_PER_SEASON)
FreeFundingBalance(a) == [author |-> a, balance |-> Limit, inDb |-> FALSE]

\* the value of amount * len(mentions) for a parsed command
Total(args) == Float(AmountToken(args)) * Len(Mentions(args))

\* db.get_user_free_funding_balance(author): the author's row, None (0) if absent
GetBalance(bals, a) ==
    LET rows == {i \in 1..Len(bals) : bals[i].inDb /\ bals[i].author = a} IN
    IF rows = {} THEN 0 ELSE CHOOSE i \in rows : \A j \in rows : i <= j

\* except Exception as e: (line 200) entered, awaiting the apology reply
Raise(c) == [c EXCEPT !.pc = "apology", !.caught = TRUE]

\* bug variant: the sentinel file is not consulted
GateIgnoringFlag(flag, rec) == IF rec THEN "recovery_reply" ELSE "validate_roles"

\* bug variant: recovery is not consulted
GateIgnoringRecovery(flag, rec) == IF flag THEN "paused_reply" ELSE "validate_roles"

\* the two stop switches checked after fetch_message (lines 134, 144)
Gate(flag, rec) ==
    IF flag THEN "paused_reply"
    ELSE IF rec THEN "recovery_reply"
    ELSE "validate_roles"

\* what the environment showed when the switches were read
EnvSeen(flag, rec) == IF flag THEN "paused" ELSE IF rec THEN "recovery" ELSE "open"

\* bug variant: the debit forgets the number of recipients
DebitOnce(balance, amount, n) == balance - amount

\* bug variant: the debit is not applied before the grant message is sent
DebitSkipped(balance, amount, n) == balance

\* author_balance.balance -= amount * len(mentions); db.save()
Debit(balance, amount, n) == balance - amount * n

\* bug variant: the validator's verdict is ignored
ProceedsAlways(verdict) == TRUE

\* if not await validate_free_transaction(...): react and return
Proceeds(verdict) == verdict

\* FreeFundingTransaction(author, mentions, amount, description, submitted_at)
FreeFundingTransaction(c) ==
    [author |-> c.author,
     mentions |-> Join(Separator, Mentions(c.args)),
     amount |-> Float(AmountToken(c.args)) * Len(Mentions(c.args)),
     description |-> Description(c.args)]

\* bug variant: the except block does not re-raise and the function carries on
GrantSwallowed(c) == [c EXCEPT !.pc = "add_history"]

\* raise e at the end of the except block of the notification step
GrantFailed(c) == Raise(c)

\* bug variant: the apology reply is not guarded and its exception leaves the handler
ApologyEscapes(c) == [c EXCEPT !.pc = "escaped"]

\* the inner try/except around the apology reply (lines 201-207)
ApologyFailed(c) ==
    [c EXCEPT !.pc = "done", !.critical = @ \o <<"unable_to_reply", "command">>]

(* ------------------------------ actions ------------------------------- *)
TxInit ==
    /\ ctx = [p \in Procs |-> Idle]
    /\ balances = <<>>
    /\ history = <<>>
    /\ flagFile \in BOOLEAN
    /\ recovery \in BOOLEAN
    /\ started = 0
    /\ due = <<>>

Set(p, c) == ctx' = [ctx EXCEPT ![p] = c]

\* the event loop dispatches a command to free_funding_transact_command;
\* the handler runs up to await ctx.fetch_message (lines 126-131)
Start(p) ==
    /\ ctx[p].pc \in {"idle", "done"}
    /\ started < MaxInv
    /\ started' = started + 1
    /\ \E a \in Authors, m \in Commands :
          Set(p, [Idle EXCEPT !.pc = "fetch_message", !.author = a, !.args = m,
                              !.store0 = Store(balances, history)])
    /\ UNCHANGED <<balances, history, flagFile, recovery, due, regvars>>

\* await ctx.fetch_message returns; the stop switches are read
FetchMessage(p) ==
    /\ ctx[p].pc = "fetch_message"
    /\ \E ok \in BOOLEAN :
          IF ok
          THEN Set(p, [ctx[p] EXCEPT !.pc = Gate(flagFile, recovery),
                                     !.env = EnvSeen(flagFile, recovery),
                                     !.recSeen = recovery])
          ELSE Set(p, Raise(ctx[p]))
    /\ UNCHANGED <<balances, history, flagFile, recovery, started, due, regvars>>

\* await original_message.reply(text) at position `at`
ReplyStep(p, at, text, next) ==
    /\ ctx[p].pc = at
    /\ \E ok \in BOOLEAN :
          IF ok
          THEN Set(p, [ctx[p] EXCEPT !.pc = next, !.replies = Append(@, text)])
          ELSE Set(p, Raise(ctx[p]))
    /\ UNCHANGED <<balances, history, flagFile, recovery, started, due, regvars>>

\* await ctx.message.add_reaction(emoji) at position `at`, followed by return
ReactStep(p, at, emoji) ==
    /\ ctx[p].pc = at
    /\ \E ok \in BOOLEAN :
          IF ok
          THEN Set(p, [ctx[p] EXCEPT !.pc = "done", !.reacts = Append(@, emoji)])
          ELSE Set(p, Raise(ctx[p]))
    /\ UNCHANGED <<balances, history, flagFile, recovery, started, due, regvars>>

PausedReply(p) == ReplyStep(p, "paused_reply", "FREE_FUNDING_PAUSED_RESPONSE", "paused_react")
PausedReact(p) == ReactStep(p, "paused_react", "FAILED")
RecoveryReply(p) ==
    ReplyStep(p, "recovery_reply", "FREE_FUNDING_PAUSED_RECOVERY_RESPONSE", "recovery_react")
RecoveryReact(p) == ReactStep(p, "recovery_react", "FAILED")
RoleReply(p) == ReplyStep(p, "role_reply", "ERROR_MESSAGE_INVALID_ROLE", "role_react")
RoleReact(p) == ReactStep(p, "role_react", "FAILED")
FormatReply(p) ==
    ReplyStep(p, "format_reply", "ERROR_MESSAGE_FREE_FUNDING_INVALID_COMMAND_FORMAT",
              "format_react")
FormatReact(p) == ReactStep(p, "format_react", "FAILED")
RejectReact(p) == ReactStep(p, "reject_react", "FAILED")
SucceedReact(p) == ReactStep(p, "succeed_react", "SUCCEED")

\* send_transaction up to its first await (lines 50-61): resolve or lazily
\* create the author's balance object, then call the validator
SendTransaction(p, c) ==
    LET b == GetBalance(balances, c.author) IN
    IF b = 0
    THEN /\ balances' = Append(balances, FreeFundingBalance(c.author))
         /\ due' = Append(due, 0)
         /\ Set(p, [c EXCEPT !.pc = "db_add", !.balance = Len(balances) + 1])
    ELSE /\ Set(p, [c EXCEPT !.pc = "validate", !.balance = b,
                             !.shown = balances[b].balance])
         /\ UNCHANGED <<balances, due>>

\* await validate_roles returns; argument checks and parsing (lines 154-198)
ValidateRoles(p) ==
    /\ ctx[p].pc = "validate_roles"
    /\ LET c == ctx[p] IN
       \E r \in {"raise", "invalid", "valid"} :
          CASE r = "raise" ->
                 Set(p, Raise(c)) /\ UNCHANGED <<balances, due>>
            [] r = "invalid" ->
                 Set(p, [c EXCEPT !.pc = "role_reply"]) /\ UNCHANGED <<balances, due>>
            [] OTHER ->
                 IF Len(c.args) = 0
                 THEN Set(p, [c EXCEPT !.pc = "send_balance"]) /\ UNCHANGED <<balances, due>>
                 ELSE IF Len(c.args) < 3
                 THEN Set(p, [c EXCEPT !.pc = "format_reply"]) /\ UNCHANGED <<balances, due>>
                 ELSE IF ~HasMentions(c.args)
                 THEN Set(p, [c EXCEPT !.pc = "done"]) /\ UNCHANGED <<balances, due>>
                 ELSE IF ~RegexMatch(c.args)
                 THEN Set(p, [c EXCEPT !.pc = "format_reply"]) /\ UNCHANGED <<balances, due>>
                 ELSE IF ~FloatOk(AmountToken(c.args))
                 THEN Set(p, Raise(c)) /\ UNCHANGED <<balances, due>>
                 ELSE SendTransaction(p, c)
    /\ UNCHANGED <<history, flagFile, recovery, started, regvars>>

\* await send_free_funding_balance(ctx) returns (line 162)
SendBalance(p) ==
    /\ ctx[p].pc = "send_balance"
    /\ \E ok \in BOOLEAN :
          IF ok
          THEN Set(p, [ctx[p] EXCEPT !.pc = "done", !.replies = Append(@, "BALANCE")])
          ELSE Set(p, Raise(ctx[p]))
    /\ UNCHANGED <<balances, history, flagFile, recovery, started, due, regvars>>

\* await db.add(author_balance) returns (line 57); the validator is called
DbAdd(p) ==
    /\ ctx[p].pc = "db_add"
    /\ LET c == ctx[p] IN
       \E ok \in BOOLEAN :
          IF ok
          THEN /\ balances' = [balances EXCEPT ![c.balance].inDb = TRUE]
               /\ Set(p, [c EXCEPT !.pc = "validate",
                                   !.shown = balances[c.balance].balance])
          ELSE /\ Set(p, Raise(c))
               /\ UNCHANGED balances
    /\ UNCHANGED <<history, flagFile, recovery, started, due, regvars>>

\* the verdicts validate_free_transaction can return given the balance it was shown
Verdicts(c) == IF Total(c.args) <= c.shown THEN {TRUE, FALSE} ELSE {FALSE}

\* await validate_free_transaction returns (lines 60-83): reject, or debit,
\* save and send the grant message
Validate(p) ==
    /\ ctx[p].pc = "validate"
    /\ LET c == ctx[p] IN
       \/ /\ Set(p, Raise(c))
          /\ UNCHANGED <<balances, due>>
       \/ \E v \in Verdicts(c) :
             LET d == [c EXCEPT !.accepted = v, !.rejected = ~v] IN
             IF Proceeds(v)
             THEN /\ balances' = [balances EXCEPT ![c.balance].balance =
                                     Debit(@, Float(AmountToken(c.args)), Len(Mentions(c.args)))]
                  /\ due' = IF v THEN [due EXCEPT ![c.balance] = @ + Total(c.args)] ELSE due
                  /\ Set(p, [d EXCEPT !.pc = "channel_send"])
             ELSE /\ Set(p, [d EXCEPT !.pc = "reject_react"])
                  /\ due' = IF v THEN [due EXCEPT ![c.balance] = @ + Total(c.args)] ELSE due
                  /\ UNCHANGED balances
    /\ UNCHANGED <<history, flagFile, recovery, started, regvars>>

\* await channel.send(grant_message) returns (line 83)
ChannelSend(p) ==
    /\ ctx[p].pc = "channel_send"
    /\ \E ok \in BOOLEAN :
          IF ok
          THEN Set(p, [ctx[p] EXCEPT !.pc = "message_edit", !.notified = TRUE])
          ELSE Set(p, [ctx[p] EXCEPT !.pc = "could_not_apply", !.notifyFailed = TRUE])
    /\ UNCHANGED <<balances, history, flagFile, recovery, started, due, regvars>>

\* await message.edit(suppress=True) returns (line 85)
MessageEdit(p) ==
    /\ ctx[p].pc = "message_edit"
    /\ \E ok \in BOOLEAN :
          IF ok
          THEN Set(p, [ctx[p] EXCEPT !.pc = "add_history"])
          ELSE Set(p, [ctx[p] EXCEPT !.pc = "could_not_apply", !.notifyFailed = TRUE])
    /\ UNCHANGED <<balances, history, flagFile, recovery, started, due, regvars>>

\* await ctx.message.channel.send("Could not apply grant...") returns; the
\* critical log and raise e follow (lines 87-96)
CouldNotApply(p) ==
    /\ ctx[p].pc = "could_not_apply"
    /\ \E ok \in BOOLEAN :
          IF ok
          THEN Set(p, GrantFailed([ctx[p] EXCEPT
                          !.replies = Append(@, "COULD_NOT_APPLY"),
                          !.critical = Append(@, "send_transaction")]))
          ELSE Set(p, Raise(ctx[p]))
    /\ UNCHANGED <<balances, history, flagFile, recovery, started, due, regvars>>

\* await db.add_free_transactions_history_item(...) returns (lines 99-107)
AddHistory(p) ==
    /\ ctx[p].pc = "add_history"
    /\ LET c == ctx[p] IN
       \E ok \in BOOLEAN :
          IF ok
          THEN /\ history' = Append(history, FreeFundingTransaction(c))
               /\ Set(p, [c EXCEPT !.pc = "succeed_react",
                                   !.appended = Append(@, FreeFundingTransaction(c))])
          ELSE /\ Set(p, Raise(c))
               /\ UNCHANGED history
    /\ UNCHANGED <<balances, flagFile, recovery, started, due, regvars>>

\* await ctx.message.reply("An unexpected error occurred...") returns; the
\* critical log follows whether or not the reply went out (lines 200-216)
Apology(p) ==
    /\ ctx[p].pc = "apology"
    /\ \E ok \in BOOLEAN :
          IF ok
          THEN Set(p, [ctx[p] EXCEPT !.pc = "done",
                                     !.replies = Append(@, "UNEXPECTED_ERROR"),
                                     !.critical = Append(@, "command")])
          ELSE Set(p, ApologyFailed(ctx[p]))
    /\ UNCHANGED <<balances, history, flagFile, recovery, started, due, regvars>>

\* an operator creates or removes the sentinel file
ToggleFlagFile ==
    /\ flagFile' = ~flagFile
    /\ UNCHANGED <<ctx, balances, history, recovery, started, due, regvars>>

\* the persistence collaborator enters or leaves recovery
ToggleRecovery ==
    /\ recovery' = ~recovery
    /\ UNCHANGED <<ctx, balances, history, flagFile, started, due, regvars>>

(* ------------------------- proposal registry -------------------------- *)
\* Number of registry operations started in a run.
MaxRegOps == 2
MaxVoterOps == 3

\* Python values, tagged with their type
PyInt(n) == [t |-> "int", v |-> n]
PyBool(b) == [t |-> "bool", v |-> IF b THEN 1 ELSE 0]
PyStr == [t |-> "str", v |-> 1]
PyDatetime == [t |-> "datetime", v |-> 0]
PyNone == [t |-> "NoneType", v |-> 0]
InstrumentedList == [t |-> "InstrumentedList", v |-> 0]
PlainList == [t |-> "list", v |-> 0]

\* isinstance(x, cls): bool is a subclass of int
IsInstance(x, cls) == x.t \in cls \/ (x.t = "bool" /\ "int" \in cls)

\* the truth value of x in `if x:`
Truthy(x) ==
    CASE x.t \in {"bool", "int", "str"} -> x.v # 0
      [] x.t = "NoneType" -> FALSE
      [] OTHER -> TRUE

Ids == {1, 2}

\* the Proposals objects handed to add_proposal
ProposalInputs ==
    [message_id : {PyInt(10)},
     channel_id : {PyInt(20)},
     author_id : {PyStr},
     voting_message_id : {PyInt(i) : i \in Ids} \cup {PyStr},
     description : {PyStr},
     not_financial : {PyBool(TRUE), PyBool(FALSE), PyNone},
     submitted_at : {PyDatetime},
     closed_at : {PyDatetime},
     bot_response_message_id : {PyInt(30)},
     threshold_negative : {PyInt(3)},
     finance_recipients : {InstrumentedList, PlainList, PyNone}]

\* validate_grantless_proposal: TRUE when no check raises ValueError
validate_grantless_proposal(p) ==
    /\ IsInstance(p.message_id, {"int"})
    /\ IsInstance(p.channel_id, {"int"})
    /\ IsInstance(p.author_id, {"User", "str", "int"})
    /\ IsInstance(p.voting_message_id, {"int"})
    /\ IsInstance(p.description, {"str"})
    /\ IsInstance(p.not_financial, {"bool"})
    /\ IsInstance(p.submitted_at, {"datetime"})
    /\ IsInstance(p.closed_at, {"datetime"})
    /\ IsInstance(p.bot_response_message_id, {"int"})
    /\ IsInstance(p.threshold_negative, {"int"})

\* bug variant: the recipients collection is not checked
ValidateWithoutRecipients(p) == validate_grantless_proposal(p)

\* validate_proposal_with_grant: TRUE when no check raises ValueError
validate_proposal_with_grant(p) ==
    /\ validate_grantless_proposal(p)
    /\ IsInstance(p.finance_recipients, {"InstrumentedList"})

\* the dict key of a proposal
Key(p) == p.voting_message_id.v

\* reg[k] = p
Put(reg, k, p) == [i \in DOMAIN reg \cup {k} |-> IF i = k THEN p ELSE reg[i]]

\* del reg[k]
Del(reg, k) == [i \in DOMAIN reg \ {k} |-> reg[i]]

\* bug variant: the dict is keyed by the proposer's message instead of the voting message
AddKeyedByMessageId(reg, p) ==
    [status |-> "ok", proposals |-> Put(reg, p.message_id.v, p)]

\* add_proposal(new_proposal): the exception raised, if any, and the dict afterwards
add_proposal(reg, p) ==
    LET valid == IF Truthy(p.not_financial)
                 THEN validate_grantless_proposal(p)
                 ELSE validate_proposal_with_grant(p) IN
    IF valid
    THEN [status |-> "ok", proposals |-> Put(reg, Key(p), p)]
    ELSE [status |-> "ValueError", proposals |-> reg]

\* get_proposal(voting_message_id)
get_proposal(reg, id) ==
    IF id \in DOMAIN reg
    THEN [status |-> "ok", value |-> reg[id]]
    ELSE [status |-> "ValueError", value |-> PyNone]

\* is_relevant_proposal(voting_message_id), for an int argument
is_relevant_proposal(reg, id) == id \in DOMAIN reg

\* bug variant: the entry is deleted from the dict before the durable delete
DeletedFirst(reg, id) == Del(reg, id)

\* the dict while remove_proposal awaits db.delete: the entry is still there
DuringDelete(reg, id) == reg

\* db.add(new_proposal): the store after the insert
db_add(store, p) == store \cup {p}

\* db.delete(proposal): the store after the delete (dependent voters cascade)
db_delete(store, p) == store \ {p}

\* log: the highest severity the operation has logged
NoOp == [op |-> "none", id |-> 0, arg |-> PyNone, status |-> "none", log |-> "none"]

RegInit ==
    /\ proposals = <<>>
    /\ dbProposals = {}
    /\ pending = NoOp
    /\ ret = NoOp
    /\ current = <<>>
    /\ added = {}
    /\ ops = 0

Begin ==
    /\ pending = NoOp
    /\ ops < MaxRegOps
    /\ ops' = ops + 1

\* add_proposal(new_proposal), the in-memory overload
AddProposal ==
    /\ Begin
    /\ \E p \in ProposalInputs :
          LET r == add_proposal(proposals, p) IN
          /\ proposals' = r.proposals
          /\ ret' = [op |-> "add_proposal", id |-> 0, arg |-> p, status |-> r.status,
                      log |-> IF r.status = "ok" THEN "info" ELSE "none"]
          /\ IF r.status = "ok"
             THEN /\ current' = Put(current, p.voting_message_id.v, p)
                  /\ added' = added \cup {p}
             ELSE UNCHANGED <<current, added>>
    /\ UNCHANGED <<dbProposals, pending, txvars, votvars>>

\* add_proposal(new_proposal, db) up to await db.add(new_proposal); db is the
\* DBUtil handle (TRUE) or a falsy value
AddProposalDb ==
    /\ Begin
    /\ \E p \in ProposalInputs, db \in BOOLEAN :
          LET r == add_proposal(proposals, p) IN
          /\ proposals' = r.proposals
          /\ IF r.status = "ok"
             THEN /\ current' = Put(current, p.voting_message_id.v, p)
                  /\ added' = added \cup {p}
             ELSE UNCHANGED <<current, added>>
          /\ IF r.status # "ok"
             THEN /\ ret' = [op |-> "add_proposal_db", id |-> 0, arg |-> p,
                             status |-> r.status, log |-> "none"]
                  /\ UNCHANGED pending
             ELSE IF db
             THEN /\ pending' = [op |-> "add_proposal_db", id |-> Key(p), arg |-> p,
                                 status |-> "db.add", log |-> "info"]
                  /\ UNCHANGED ret
             ELSE /\ ret' = [op |-> "add_proposal_db", id |-> 0, arg |-> p,
                             status |-> "Exception", log |-> "info"]
                  /\ UNCHANGED pending
    /\ UNCHANGED <<dbProposals, txvars, votvars>>

\* await db.add(new_proposal) returns or raises
DbAddProposal ==
    /\ pending.op = "add_proposal_db"
    /\ \E ok \in BOOLEAN :
          /\ dbProposals' = IF ok THEN db_add(dbProposals, pending.arg) ELSE dbProposals
          /\ ret' = [pending EXCEPT !.status = IF ok THEN "ok" ELSE "StorageError"]
    /\ pending' = NoOp
    /\ UNCHANGED <<proposals, current, added, ops, txvars, votvars>>

\* bug variant: an id that is not registered is skipped without a word
MissingIgnored(id) ==
    [op |-> "remove_proposal", id |-> id, arg |-> PyNone, status |-> "ok", log |-> "none"]

\* remove_proposal on an id that is not in the dict: logger.critical, then
\* raise ValueError (lines 109-113)
ProposalNotFound(id) ==
    [op |-> "remove_proposal", id |-> id, arg |-> PyNone, status |-> "ValueError",
     log |-> "critical"]

\* remove_proposal(voting_message_id, db) up to await db.delete(...)
RemoveProposal ==
    /\ Begin
    /\ \E id \in Ids :
          IF id \in DOMAIN proposals
          THEN /\ pending' = [op |-> "remove_proposal", id |-> id, arg |-> proposals[id],
                              status |-> "db.delete", log |-> "info"]
               /\ proposals' = DuringDelete(proposals, id)
               /\ UNCHANGED ret
          ELSE /\ ret' = ProposalNotFound(id)
               /\ UNCHANGED <<pending, proposals>>
    /\ UNCHANGED <<dbProposals, current, added, txvars, votvars>>

\* await db.delete(proposals[voting_message_id]) returns or raises
DbDelete ==
    /\ pending.op = "remove_proposal"
    /\ pending.status = "db.delete"
    /\ \E ok \in BOOLEAN :
          IF ok
          THEN /\ dbProposals' = db_delete(dbProposals, pending.arg)
               /\ pending' = [pending EXCEPT !.status = "del"]
               /\ UNCHANGED ret
          ELSE /\ ret' = [pending EXCEPT !.status = "StorageError"]
               /\ pending' = NoOp
               /\ UNCHANGED dbProposals
    /\ UNCHANGED <<proposals, current, added, ops, txvars, votvars>>

\* del proposals[voting_message_id]
RemoveFromDict ==
    /\ pending.op = "remove_proposal"
    /\ pending.status = "del"
    /\ IF pending.id \in DOMAIN proposals
       THEN /\ proposals' = Del(proposals, pending.id)
            /\ ret' = [pending EXCEPT !.status = "ok"]
            /\ current' = Del(current, pending.id)
            /\ added' = {q \in added : q.voting_message_id.v # pending.id}
       ELSE /\ ret' = [pending EXCEPT !.status = "KeyError"]
            /\ UNCHANGED <<proposals, current, added>>
    /\ pending' = NoOp
    /\ UNCHANGED <<dbProposals, ops, txvars, votvars>>

RegNext ==
    \/ AddProposal
    \/ AddProposalDb
    \/ DbAddProposal
    \/ RemoveProposal
    \/ DbDelete
    \/ RemoveFromDict

(* ------------------------------- voters ------------------------------- *)
Users == {1, 2}

\* a Voter object; oid stands for the identity of the Python object
Voter(u, m, o) == [user_id |-> u, voting_message_id |-> m, value |-> 1, oid |-> o]

NoVoter == Voter(0, 0, 0)

\* voters_found of find_matching_voter: the matches, proposal by proposal (the
\* dict is walked in ascending key order here), each collection in its order
RECURSIVE VotersFound(_, _, _, _)
VotersFound(vot, ids, u, m) ==
    IF ids = {} THEN <<>>
    ELSE LET id == CHOOSE i \in ids : \A j \in ids : i <= j IN
         SelectSeq(vot[id], LAMBDA v : v.user_id = u /\ v.voting_message_id = m)
             \o VotersFound(vot, ids \ {id}, u, m)

\* bug variant: several matches are resolved to the first one
FirstMatch(reg, vot, u, m) ==
    LET f == VotersFound(vot, DOMAIN reg, u, m) IN
    IF Len(f) >= 1 THEN [t |-> "Voter", v |-> <<f[1]>>] ELSE [t |-> "list", v |-> f]

\* find_matching_voter(user_id, voting_message_id): the Voter object (carried
\* in v) when exactly one matches, the list voters_found otherwise
find_matching_voter(reg, vot, u, m) ==
    LET f == VotersFound(vot, DOMAIN reg, u, m) IN
    IF Len(f) = 1 THEN [t |-> "Voter", v |-> <<f[1]>>] ELSE [t |-> "list", v |-> f]

\* the awaits of add_voter, in order
add_voter == <<"db.add", "db.append">>

\* the awaits of remove_voter, in order
remove_voter == <<"db.remove", "db.delete">>

\* list.remove(voter)
RemoveOne(seq, v) ==
    LET i == CHOOSE k \in 1..Len(seq) : seq[k] = v /\ \A j \in 1..(k - 1) : seq[j] # v IN
    SubSeq(seq, 1, i - 1) \o SubSeq(seq, i + 1, Len(seq))

NoVoterOp == [op |-> "none", id |-> 0, voter |-> NoVoter, todo |-> <<>>, status |-> "none"]

VoterInit ==
    /\ voters = [id \in Ids |-> <<>>]
    /\ dbVoters = {}
    /\ vpending = NoVoterOp
    /\ vret = NoVoterOp
    /\ found = [user_id |-> 0, voting_message_id |-> 0, result |-> [t |-> "list", v |-> <<>>]]
    /\ vops = 0

regcore == <<proposals, dbProposals, pending, ret, current, added, ops>>

VBegin ==
    /\ vops < MaxVoterOps
    /\ vops' = vops + 1

\* add_voter(proposal, voter) is called with a new Voter object
AddVoter ==
    /\ VBegin
    /\ vpending = NoVoterOp
    /\ \E id \in DOMAIN proposals, u \in Users, m \in Ids :
          vpending' = [op |-> "add_voter", id |-> id, voter |-> Voter(u, m, vops + 1),
                       todo |-> add_voter, status |-> "running"]
    /\ UNCHANGED <<voters, dbVoters, vret, found, txvars, regcore>>

\* remove_voter(proposal, voter) is called with a voter of the proposal
RemoveVoter ==
    /\ VBegin
    /\ vpending = NoVoterOp
    /\ \E id \in DOMAIN proposals :
          \E i \in 1..Len(voters[id]) :
             vpending' = [op |-> "remove_voter", id |-> id, voter |-> voters[id][i],
                          todo |-> remove_voter, status |-> "running"]
    /\ UNCHANGED <<voters, dbVoters, vret, found, txvars, regcore>>

\* the awaited storage call returned: go on to the next await, or return
Returned ==
    IF Tail(vpending.todo) = <<>>
    THEN /\ vret' = [vpending EXCEPT !.todo = <<>>, !.status = "ok"]
         /\ vpending' = NoVoterOp
    ELSE /\ vpending' = [vpending EXCEPT !.todo = Tail(@)]
         /\ UNCHANGED vret

\* the awaited storage call raised: the exception leaves the coroutine
Raised ==
    /\ vret' = [vpending EXCEPT !.status = "StorageError"]
    /\ vpending' = NoVoterOp

\* one await of add_voter / remove_voter completes
VoterStep(call) ==
    /\ vpending.todo # <<>>
    /\ Head(vpending.todo) = call
    /\ \E ok \in BOOLEAN :
          IF ok
          THEN /\ Returned
               /\ voters' = CASE call = "db.append" ->
                                   [voters EXCEPT ![vpending.id] = Append(@, vpending.voter)]
                              [] call = "db.remove" ->
                                   [voters EXCEPT ![vpending.id] = RemoveOne(@, vpending.voter)]
                              [] OTHER -> voters
               /\ dbVoters' = CASE call = "db.add" -> dbVoters \cup {vpending.voter}
                                [] call = "db.delete" -> dbVoters \ {vpending.voter}
                                [] OTHER -> dbVoters
          ELSE /\ Raised
               /\ UNCHANGED <<voters, dbVoters>>
    /\ UNCHANGED <<found, vops, txvars, regcore>>

\* await db.add(voter)
VoterDbAdd == VoterStep("db.add")

\* await db.append(proposal.voters, voter)
VoterDbAppend == VoterStep("db.append")

\* await db.remove(proposal.voters, voter)
VoterDbRemove == VoterStep("db.remove")

\* await db.delete(voter)
VoterDbDelete == VoterStep("db.delete")

\* find_matching_voter(user_id, voting_message_id) is called
FindMatchingVoter ==
    /\ VBegin
    /\ \E u \in Users, m \in Ids :
          found' = [user_id |-> u, voting_message_id |-> m,
                    result |-> find_matching_voter(proposals, voters, u, m)]
    /\ UNCHANGED <<voters, dbVoters, vpending, vret, txvars, regcore>>

VotNext ==
    \/ AddVoter
    \/ VoterDbAdd
    \/ VoterDbAppend
    \/ RemoveVoter
    \/ VoterDbRemove
    \/ VoterDbDelete
    \/ FindMatchingVoter

Init == TxInit /\ RegInit /\ VoterInit

\* a proposal restored from the store into the dict at start-up
Restored(id) ==
    CHOOSE p \in ProposalInputs :
        /\ p.voting_message_id = PyInt(id)
        /\ p.not_financial = PyBool(TRUE)
        /\ p.finance_recipients = PyNone

\* the registry after start-up restored one or two proposals
VotInit ==
    /\ TxInit /\ ~flagFile /\ ~recovery
    /\ VoterInit
    /\ \E n \in Ids :
          /\ proposals = [id \in 1..n |-> Restored(id)]
          /\ dbProposals = {Restored(id) : id \in 1..n}
          /\ current = [id \in 1..n |-> Restored(id)]
          /\ added = {Restored(id) : id \in 1..n}
    /\ pending = NoOp
    /\ ret = NoOp
    /\ ops = 0

SpecVoters == VotInit /\ [][VotNext]_vars

SpecReg == Init /\ [][RegNext]_vars

\* One handler task serving commands one after the other, the operator and
\* the persistence collaborator switching the stop switches at any time.
Next ==
    \/ Start(1)
    \/ FetchMessage(1)
    \/ PausedReply(1)
    \/ PausedReact(1)
    \/ RecoveryReply(1)
    \/ RecoveryReact(1)
    \/ ValidateRoles(1)
    \/ RoleReply(1)
    \/ RoleReact(1)
    \/ SendBalance(1)
    \/ FormatReply(1)
    \/ FormatReact(1)
    \/ DbAdd(1)
    \/ Validate(1)
    \/ RejectReact(1)
    \/ ChannelSend(1)
    \/ MessageEdit(1)
    \/ CouldNotApply(1)
    \/ AddHistory(1)
    \/ SucceedReact(1)
    \/ Apology(1)
    \/ ToggleFlagFile
    \/ ToggleRecovery

Spec == Init /\ [][Next]_vars

\* the commands that reach send_transaction (line 198)
TxCommands ==
    {m \in Commands : /\ Len(m) >= 3
                      /\ HasMentions(m)
                      /\ RegexMatch(m)
                      /\ FloatOk(AmountToken(m))}

\* a handler task that passed the switches, the role check and the parser
\* calls send_transaction(ctx, original_message, mentions, amount, description);
\* the tasks take the lowest free slot and the first caller is named a1 (tasks
\* and authors are interchangeable); store0 is kept by the command runs only
Call(p) ==
    /\ ctx[p].pc \in {"idle", "done"}
    /\ \A q \in Procs : q < p => ctx[q].pc \notin {"idle", "done"}
    /\ started < MaxCalls
    /\ started' = started + 1
    /\ \E a \in (IF started = 0 THEN {"a1"} ELSE Authors), m \in TxCommands :
          SendTransaction(p, [Idle EXCEPT !.author = a, !.args = m, !.env = "open"])
    /\ UNCHANGED <<history, flagFile, recovery, regvars>>

ConcInit ==
    /\ Init
    /\ ~flagFile
    /\ ~recovery

\* Two handler tasks interleaved by the event loop at the awaits of
\* send_transaction.
ConcNext ==
    \/ \E p \in Procs : Call(p)
    \/ \E p \in Procs : DbAdd(p)
    \/ \E p \in Procs : Validate(p)
    \/ \E p \in Procs : RejectReact(p)
    \/ \E p \in Procs : ChannelSend(p)
    \/ \E p \in Procs : MessageEdit(p)
    \/ \E p \in Procs : CouldNotApply(p)
    \/ \E p \in Procs : AddHistory(p)
    \/ \E p \in Procs : SucceedReact(p)
    \/ \E p \in Procs : Apology(p)

SpecConc == ConcInit /\ [][ConcNext]_vars

\* the task whose grant message send never completes
Hung == 1

\* bug variant: the grant message is sent with a blocking call, so the event
\* loop is held for as long as the send lasts
BlockingSend(c) == c.pc = "channel_send"

\* whether a task waiting at c.pc holds the event loop: never, every wait of
\* send_transaction is an await that hands control back to the loop
HoldsLoop(c) == FALSE

\* the event loop is free to resume task p
Runnable(p) == \A q \in Procs \ {p} : ~HoldsLoop(ctx[q])

\* the awaits of a send_transaction invocation; the grant message send of the
\* hung task is the one that never returns
TaskStep(p) ==
    \/ DbAdd(p)
    \/ Validate(p)
    \/ RejectReact(p)
    \/ (p # Hung /\ ChannelSend(p))
    \/ MessageEdit(p)
    \/ CouldNotApply(p)
    \/ AddHistory(p)
    \/ SucceedReact(p)
    \/ Apology(p)

HangNext ==
    \/ \E p \in Procs : Runnable(p) /\ Call(p)
    \/ \E p \in Procs : Runnable(p) /\ TaskStep(p)

\* Every awaited operation but the hung send completes, and the event loop
\* resumes a coroutine whose awaited operation has completed.
SpecHang ==
    /\ ConcInit
    /\ [][HangNext]_vars
    /\ \A p \in Procs : WF_vars(Runnable(p) /\ TaskStep(p))

(* ------------------------------ properties ---------------------------- *)
Range(f) == {f[i] : i \in DOMAIN f}

\* the history record send_transaction is to append for a command
ExpectedRecord(c) ==
    [author |-> c.author,
     mentions |-> Join(Separator, Mentions(c.args)),
     amount |-> Total(c.args),
     description |-> Description(c.args)]

\* C1: once the grant message send or the embed-suppressing edit has raised,
\* the author's balance stays at the debited value (no rollback), nothing is
\* appended to the history, no success reaction is applied, the exception
\* reaches the top-level handler of the command, and a critical log has been
\* emitted by the time the handler returns (send_transaction's own whenever
\* its "Could not apply grant" message went out).
C1_NotifyFailureKeepsDebit ==
    \A p \in Procs :
        LET c == ctx[p] IN
        c.notifyFailed =>
            /\ c.accepted
            /\ balances[c.balance].inDb
            /\ balances[c.balance].balance = c.shown - Total(c.args)
            /\ c.appended = <<>>
            /\ history = c.store0.history
            /\ "SUCCEED" \notin Range(c.reacts)
            /\ c.pc \in {"could_not_apply", "apology", "done"}
            /\ (c.pc \in {"apology", "done"} => c.caught)
            /\ ("COULD_NOT_APPLY" \in Range(c.replies) => "send_transaction" \in Range(c.critical))
            /\ (c.pc = "done" => "command" \in Range(c.critical))

C1_Witness ==
    \E p \in Procs :
        LET c == ctx[p] IN
        /\ c.notifyFailed
        /\ c.pc = "done"
        /\ Total(c.args) > 0
        /\ balances[c.balance].balance < Limit
        /\ c.critical = <<"send_transaction", "command">>

\* C2: when the validator accepts and the notification succeeds, then on
\* completion the balance is the prior balance minus amount x recipients,
\* exactly one history record was appended, carrying the author, the joined
\* recipients, amount x recipients and the description, and the success
\* reaction is on the triggering message.
C2_SuccessfulTransaction ==
    \A p \in Procs :
        LET c == ctx[p] IN
        (c.pc = "done" /\ c.accepted /\ c.notified /\ ~c.notifyFailed /\ ~c.caught) =>
            /\ balances[c.balance].balance =
                   c.shown - Float(AmountToken(c.args)) * Len(Mentions(c.args))
            /\ c.appended = <<ExpectedRecord(c)>>
            /\ history = Append(c.store0.history, ExpectedRecord(c))
            /\ c.reacts = <<"SUCCEED">>

C2_Witness ==
    \E p \in Procs :
        LET c == ctx[p] IN
        /\ c.pc = "done" /\ c.accepted /\ c.notified /\ ~c.caught
        /\ Len(Mentions(c.args)) = 2
        /\ c.shown = Limit
        /\ balances[c.balance].balance = Limit - 2
        /\ Len(history) = 1
        /\ c.reacts = <<"SUCCEED">>

\* C3: when the validator rejects, the author's balance is unchanged, no
\* grant message is sent, nothing is appended to the history, and on return
\* the failure reaction is on the triggering message.
C3_RejectedTransaction ==
    \A p \in Procs :
        LET c == ctx[p] IN
        c.rejected =>
            /\ balances[c.balance].balance = c.shown
            /\ ~c.notified /\ ~c.notifyFailed
            /\ c.appended = <<>>
            /\ history = c.store0.history
            /\ c.pc \in {"reject_react", "apology", "done"}
            /\ (c.pc = "done" /\ ~c.caught => c.reacts = <<"FAILED">>)

C3_Witness ==
    \E p \in Procs :
        LET c == ctx[p] IN
        /\ c.rejected /\ c.pc = "done" /\ ~c.caught
        /\ Total(c.args) > c.shown
        /\ c.reacts = <<"FAILED">>

\* C4 as stated: a rejected invocation leaves the persistent store (the
\* balance rows, their amounts and the history) identical to what it was
\* when the command arrived, also for an author without a balance record.
C4_StoreIdenticalOnReject ==
    \A p \in Procs :
        LET c == ctx[p] IN
        (c.rejected /\ c.pc = "done") => Store(balances, history) = c.store0

\* C4 amended: a rejected invocation leaves the history and every balance
\* row that existed beforehand identical; the only persistent change is the
\* row inserted, at the season limit, for an author that had none.
C4_RejectKeepsExistingRows ==
    \A p \in Procs :
        LET c == ctx[p]
            r == Rows(balances)
            r0 == c.store0.rows IN
        c.rejected =>
            /\ history = c.store0.history
            /\ Len(r) >= Len(r0)
            /\ \A i \in 1..Len(r0) : r[i] = r0[i]
            /\ \/ Len(r) = Len(r0)
               \/ /\ Len(r) = Len(r0) + 1
                  /\ r[Len(r)] = [author |-> c.author, balance |-> Limit]
                  /\ \A i \in 1..Len(r0) : r0[i].author # c.author

C4_Witness ==
    \E p \in Procs :
        LET c == ctx[p] IN
        /\ c.rejected /\ c.pc = "done" /\ ~c.caught
        /\ Len(Rows(balances)) = Len(c.store0.rows) + 1

\* C5: whenever the grant message of an invocation is being sent or has
\* been sent, the validator has accepted it and its debit is already in the
\* saved balance row.
C5_DebitBeforeNotify ==
    \A p \in Procs :
        LET c == ctx[p] IN
        (c.pc = "channel_send" \/ c.notified \/ c.notifyFailed) =>
            /\ c.accepted
            /\ balances[c.balance].inDb
            /\ balances[c.balance].balance = Limit - due[c.balance]

C5_Witness ==
    \E p \in Procs, q \in Procs :
        /\ p # q
        /\ ctx[p].notified
        /\ Total(ctx[p].args) > 0
        /\ ctx[q].pc \in {"validate", "channel_send"}

\* C9: an invocation that finds the sentinel file present never reaches
\* send_transaction: it resolves, creates and debits no balance, sends no
\* grant message, appends no history, leaves the store as it was, and on
\* return has answered with the paused reply and the failure reaction.
C9_PausedByFlagFile ==
    \A p \in Procs :
        LET c == ctx[p] IN
        c.env = "paused" =>
            /\ c.pc \in {"paused_reply", "paused_react", "apology", "done"}
            /\ c.balance = 0
            /\ ~c.accepted /\ ~c.rejected /\ ~c.notified /\ ~c.notifyFailed
            /\ c.appended = <<>>
            /\ Store(balances, history) = c.store0
            /\ (c.pc = "paused_react" => c.replies = <<"FREE_FUNDING_PAUSED_RESPONSE">>)
            /\ (c.pc = "done" /\ ~c.caught =>
                    /\ c.replies = <<"FREE_FUNDING_PAUSED_RESPONSE">>
                    /\ c.reacts = <<"FAILED">>)

C9_Witness ==
    \E p \in Procs :
        LET c == ctx[p] IN
        /\ c.env = "paused" /\ c.pc = "done" /\ ~c.caught
        /\ c.args \in TxCommands
        /\ \E i \in 1..Len(balances) :
              /\ balances[i].inDb
              /\ balances[i].author = c.author
              /\ balances[i].balance >= Total(c.args)

\* C10: no exception leaves free_funding_transact_command: every exception
\* raised in it is handled by the top-level boundary, whose critical log is
\* the last thing the handler does, also when the apology reply fails; the
\* next command can then be dispatched.
C10_NothingEscapes ==
    \A p \in Procs :
        LET c == ctx[p] IN
        /\ c.pc # "escaped"
        /\ (c.caught => c.pc \in {"apology", "done"})
        /\ (c.caught /\ c.pc = "done" =>
                /\ c.critical # <<>>
                /\ c.critical[Len(c.critical)] = "command")
        /\ (p = 1 /\ c.caught /\ c.pc = "done" /\ started < MaxInv => ENABLED Start(1))

C10_Witness ==
    \E p \in Procs :
        LET c == ctx[p] IN
        /\ c.caught /\ c.pc = "done"
        /\ c.critical = <<"unable_to_reply", "command">>
        /\ started < MaxInv
        /\ ENABLED Start(p)

\* C6 as stated: every proposal inserted by add_proposal and not removed
\* since is what get_proposal returns for its voting_message_id.
C6_LookupReturnsInserted ==
    \A q \in added :
        get_proposal(proposals, q.voting_message_id.v) = [status |-> "ok", value |-> q]

\* C6 amended: get_proposal returns the proposal last inserted under the id
\* as long as it was not removed (a later add_proposal with the same id
\* replaces it); for an id never inserted or removed, get_proposal raises
\* and is_relevant_proposal is false.
C6_LookupReturnsLatest ==
    /\ \A id \in DOMAIN current :
          /\ get_proposal(proposals, id) = [status |-> "ok", value |-> current[id]]
          /\ is_relevant_proposal(proposals, id)
    /\ \A id \in Ids \ DOMAIN current :
          /\ get_proposal(proposals, id).status = "ValueError"
          /\ ~is_relevant_proposal(proposals, id)
    /\ (ret.op = "remove_proposal" /\ ret.status = "ok" /\ pending = NoOp) =>
          /\ get_proposal(proposals, ret.id).status = "ValueError"
          /\ ~is_relevant_proposal(proposals, ret.id)

C6_Witness ==
    /\ ret.op = "remove_proposal" /\ ret.status = "ok" /\ pending = NoOp
    /\ ret.arg \in ProposalInputs
    /\ get_proposal(proposals, ret.id).status = "ValueError"

\* the registry and the durable store hold the same proposals
SameProposals == Range(proposals) = dbProposals

\* C7: an entry leaves the dict only in remove_proposal and only after the
\* durable delete has been performed; when db.delete raises, the dict and
\* the store are left as they were, so the proposal is still registered and
\* a registry that agreed with the store still agrees.
C7_DurableDeleteFirst ==
    [][ /\ \A id \in DOMAIN proposals :
              id \notin DOMAIN proposals' =>
                  /\ pending.op = "remove_proposal"
                  /\ pending.status = "del"
                  /\ pending.id = id
                  /\ proposals[id] \notin dbProposals
        /\ (pending.op = "remove_proposal" /\ pending' = NoOp
               /\ ret'.status = "StorageError") =>
              /\ pending.id \in DOMAIN proposals'
              /\ proposals' = proposals
              /\ dbProposals' = dbProposals
              /\ (SameProposals => SameProposals')
      ]_vars

C7_Witness ==
    /\ ret.op = "remove_proposal" /\ ret.status = "StorageError" /\ pending = NoOp
    /\ ret.id \in DOMAIN proposals
    /\ proposals[ret.id] \in dbProposals
    /\ SameProposals

\* a financial proposal without an InstrumentedList of recipients
FinancialWithoutRecipients(p) ==
    /\ p.not_financial = PyBool(FALSE)
    /\ p.finance_recipients.t # "InstrumentedList"

\* a non-financial proposal whose other fields have the required types
NonFinancialWellTyped(p) ==
    /\ p.not_financial = PyBool(TRUE)
    /\ p.message_id.t = "int" /\ p.channel_id.t = "int"
    /\ p.author_id.t \in {"User", "str", "int"}
    /\ p.voting_message_id.t = "int"
    /\ p.description.t = "str"
    /\ p.submitted_at.t = "datetime" /\ p.closed_at.t = "datetime"
    /\ p.bot_response_message_id.t = "int" /\ p.threshold_negative.t = "int"

\* C8: add_proposal of a financial proposal whose finance_recipients is
\* absent or not an InstrumentedList raises ValueError and leaves the dict
\* unchanged; add_proposal of a well-typed non-financial proposal succeeds
\* and registers it, with or without a recipients collection.
C8_RecipientsRequiredIffFinancial ==
    \A p \in ProposalInputs :
        LET r == add_proposal(proposals, p) IN
        /\ FinancialWithoutRecipients(p) =>
              r.status = "ValueError" /\ r.proposals = proposals
        /\ NonFinancialWellTyped(p) =>
              /\ r.status = "ok"
              /\ p.voting_message_id.v \in DOMAIN r.proposals
              /\ r.proposals[p.voting_message_id.v] = p

C8_Witness ==
    /\ ret.op = "add_proposal" /\ ret.status = "ValueError"
    /\ ret.arg.not_financial = PyBool(FALSE)
    /\ ret.arg.finance_recipients = PyNone
    /\ ret.arg.voting_message_id.t = "int"
    /\ \E id \in DOMAIN proposals :
          /\ proposals[id].not_financial = PyBool(TRUE)
          /\ proposals[id].finance_recipients = PyNone

\* C12 as stated: an invocation dispatched while recovery is in progress is
\* answered with the recovery reply and the failure reaction.
C12_RecoveryReply ==
    \A p \in Procs :
        LET c == ctx[p] IN
        (c.recSeen /\ c.pc = "done" /\ ~c.caught) =>
            /\ c.replies = <<"FREE_FUNDING_PAUSED_RECOVERY_RESPONSE">>
            /\ c.reacts = <<"FAILED">>

\* C12 amended: an invocation that finds recovery in progress is rejected
\* before the role check, the parser and send_transaction: no balance is
\* resolved, created or debited, no grant message is sent, the store is left
\* as it was, and on return it has the failure reaction and the recovery
\* reply, or the paused reply when the sentinel file is present as well.
C12_RejectedDuringRecovery ==
    \A p \in Procs :
        LET c == ctx[p] IN
        c.recSeen =>
            /\ c.pc \in {"paused_reply", "paused_react", "recovery_reply",
                         "recovery_react", "apology", "done"}
            /\ c.balance = 0
            /\ ~c.accepted /\ ~c.rejected /\ ~c.notified /\ ~c.notifyFailed
            /\ c.appended = <<>>
            /\ Store(balances, history) = c.store0
            /\ (c.pc = "done" /\ ~c.caught =>
                    /\ c.reacts = <<"FAILED">>
                    /\ c.replies = IF c.env = "paused"
                                   THEN <<"FREE_FUNDING_PAUSED_RESPONSE">>
                                   ELSE <<"FREE_FUNDING_PAUSED_RECOVERY_RESPONSE">>)

C12_Witness ==
    \E p \in Procs :
        LET c == ctx[p] IN
        /\ c.recSeen /\ c.env = "recovery" /\ c.pc = "done" /\ ~c.caught
        /\ c.args \in TxCommands
        /\ c.replies = <<"FREE_FUNDING_PAUSED_RECOVERY_RESPONSE">>
        /\ \E i \in 1..Len(balances) :
              /\ balances[i].inDb
              /\ balances[i].author = c.author
              /\ balances[i].balance >= Total(c.args)

\* C13: the amount of every balance record is non-negative in every reachable
\* state, whatever the interleaving of send_transaction invocations, when the
\* validator accepts only a total that does not exceed the balance it was shown.
C13_BalanceNonNegative ==
    \A i \in 1..Len(balances) : balances[i].balance >= 0

\* the sum of the history amounts recorded for an author
RECURSIVE Granted(_, _)
Granted(h, a) ==
    IF h = <<>> THEN 0
    ELSE (IF Head(h).author = a THEN Head(h).amount ELSE 0) + Granted(Tail(h), a)

\* the balance get_user_free_funding_balance reports for an author; the season
\* limit when the author has no record yet
CurrentBalance(a) ==
    LET b == GetBalance(balances, a) IN
    IF b = 0 THEN Limit ELSE balances[b].balance

InFlight(a) ==
    \E p \in Procs : ctx[p].author = a /\ ctx[p].pc \notin {"idle", "done"}

NotificationFailed(a) ==
    \E p \in Procs : ctx[p].author = a /\ ctx[p].notifyFailed

\* every invocation dispatched so far still has its locals in ctx
AllVisible == started = Cardinality({p \in Procs : ctx[p].pc # "idle"})

\* C14: for every author the history amounts sum to at most the season limit
\* minus the current balance, every history record belongs to one invocation
\* whose debit was saved and whose notification went out, and the sum equals
\* limit minus balance when no invocation of the author is in flight and none
\* of its notifications failed.
C14_FundsConserved ==
    /\ \A a \in Authors :
          /\ Granted(history, a) <= Limit - CurrentBalance(a)
          /\ (AllVisible /\ ~InFlight(a) /\ ~NotificationFailed(a)) =>
                Granted(history, a) = Limit - CurrentBalance(a)
    /\ \A p \in Procs :
          ctx[p].appended # <<>> => ctx[p].accepted /\ ctx[p].notified

\* C20: the balance table holds at most one record per author in every
\* reachable state, overlapping first invocations of an author included.
C20_OneRecordPerAuthor ==
    \A i, j \in 1..Len(balances) :
        (balances[i].inDb /\ balances[j].inDb /\ balances[i].author = balances[j].author)
            => i = j

\* C15: while the grant message send of one invocation never completes, that
\* invocation stays where it is, debited and without a history record, and
\* every other invocation in flight meanwhile runs to completion.
C15_HangBlocksOnlyItself ==
    /\ [](ctx[Hung].pc = "channel_send" =>
            /\ ctx[Hung].accepted
            /\ ctx[Hung].appended = <<>>
            /\ balances[ctx[Hung].balance].balance <= ctx[Hung].shown - Total(ctx[Hung].args))
    /\ [][ctx[Hung].pc = "channel_send" => ctx'[Hung] = ctx[Hung]]_vars
    /\ \A p \in Procs \ {Hung} :
          (ctx[Hung].pc = "channel_send" /\ ctx[p].pc \notin {"idle", "done"})
              ~> (ctx[p].pc = "done")

C15_Witness ==
    \E p \in Procs \ {Hung} :
        /\ ctx[Hung].pc = "channel_send"
        /\ ctx[p].pc = "done"
        /\ ctx[p].author = ctx[Hung].author
        /\ ctx[p].notified
        /\ ctx[p].appended # <<>>
        /\ ctx[p].reacts = <<"SUCCEED">>

\* C17: remove_proposal on an id that is not registered raises ValueError
\* after a critical log, awaits no storage delete and leaves the dict and the
\* store as they were.
C17_RemoveAbsent ==
    [][ (/\ ops' = ops + 1
         /\ pending' = NoOp
         /\ ret'.op = "remove_proposal"
         /\ ret'.id \notin DOMAIN proposals) =>
            /\ ret'.status = "ValueError"
            /\ ret'.log = "critical"
            /\ proposals' = proposals
            /\ dbProposals' = dbProposals
      ]_vars

C17_Witness ==
    /\ ret.op = "remove_proposal" /\ ret.status = "ValueError" /\ pending = NoOp
    /\ ret.log = "critical"
    /\ ret.id \notin DOMAIN proposals
    /\ proposals # <<>>
    /\ SameProposals

\* C19: once add_proposal(new_proposal, db), called with a usable storage
\* handle, has returned or raised, the proposal is in the dict only if it is
\* in the durable store: a failed durable write does not leave it registered.
C19_RegistryWithinStore ==
    (/\ pending = NoOp
     /\ ret.op = "add_proposal_db"
     /\ ret.status # "Exception") =>
        (ret.arg \in Range(proposals) => ret.arg \in dbProposals)

\* the voters of the registered proposals
AllVoters == UNION {Range(voters[id]) : id \in DOMAIN proposals}

\* C11: find_matching_voter returns the voter when exactly one voter of the
\* registered proposals matches both ids, the empty list when none does and
\* the list of all matches when several do, and changes neither the dict, the
\* collections nor the store.
C11_FindMatchingVoter ==
    [][ (vops' = vops + 1 /\ vpending' = vpending) =>
            LET r == found'.result
                M == {v \in AllVoters :
                        /\ v.user_id = found'.user_id
                        /\ v.voting_message_id = found'.voting_message_id}
            IN /\ Cardinality(M) = 1 => (r.t = "Voter" /\ Len(r.v) = 1 /\ Range(r.v) = M)
               /\ Cardinality(M) = 0 => (r.t = "list" /\ r.v = <<>>)
               /\ Cardinality(M) >= 2 =>
                     (r.t = "list" /\ Len(r.v) = Cardinality(M) /\ Range(r.v) = M)
               /\ voters' = voters
               /\ proposals' = proposals
               /\ dbVoters' = dbVoters
               /\ dbProposals' = dbProposals
      ]_vars

C11_Witness ==
    /\ found.result.t = "list"
    /\ Len(found.result.v) = 2
    /\ Range(found.result.v) \subseteq AllVoters
    /\ \A v \in Range(found.result.v) :
          v.user_id = found.user_id /\ v.voting_message_id = found.voting_message_id

\* C16: add_voter inserts the voter row before it appends the voter to the
\* collection, remove_voter deletes the row before it removes the voter from
\* the collection, and when either has returned the collection and the voters
\* table agree on the voter.
C16_RowThenCollection ==
    /\ [][ \A id \in Ids :
              /\ Len(voters'[id]) > Len(voters[id]) => vpending.voter \in dbVoters
              /\ Len(voters'[id]) < Len(voters[id]) => vpending.voter \notin dbVoters
         ]_vars
    /\ []((vpending = NoVoterOp /\ vret.status = "ok") =>
            (vret.voter \in dbVoters <=> vret.voter \in Range(voters[vret.id])))

\* a command with arguments that is not mentions, amount, description
Malformed(args) ==
    \/ Len(args) < 3
    \/ ~HasMentions(args)
    \/ ~RegexMatch(args)

\* the invocation found both stop switches off and the author's roles valid
PassedGates(c) ==
    /\ c.env = "open"
    /\ "ERROR_MESSAGE_INVALID_ROLE" \notin Range(c.replies)

\* C18: an invocation with at least one argument that passed the pause,
\* recovery and role gates and returned without an exception has put exactly
\* one reaction, success or failure, on the message, and has replied with the
\* format error when the command was malformed, a command of three or more
\* arguments without a resolved mention included.
C18_OneReactionAndReply ==
    \A p \in Procs :
        LET c == ctx[p] IN
        (c.pc = "done" /\ ~c.caught /\ PassedGates(c) /\ Len(c.args) >= 1) =>
            /\ Len(c.reacts) = 1
            /\ c.reacts[1] \in {"SUCCEED", "FAILED"}
            /\ Malformed(c.args) =>
                  "ERROR_MESSAGE_FREE_FUNDING_INVALID_COMMAND_FORMAT" \in Range(c.replies)

====
